---------------------------- MODULE Spec2Model ----------------------------
(***************************************************************************)
(* Model of the platform time-and-scheduling syscall layer of the Qi async *)
(* runtime (src/src/runtime/async_runtime/c_runtime/syscalls.c):           *)
(*   qi_async_sys_sleep_ms, qi_async_sys_monotonic_time_ns,                *)
(*   qi_async_sys_cpu_time_ns, qi_async_sys_yield, qi_async_sys_cpu_count. *)
(*                                                                         *)
(* The operating system is the environment: its clocks, its wait and yield *)
(* primitives and its processor-count query.  A build fixes the platform   *)
(* path (#ifdef _WIN32 / __APPLE__ / other) and what a signed overflow     *)
(* does; threads of one process then call the five functions in any        *)
(* interleaving.                                                           *)
(*                                                                         *)
(* 64-bit quantities are kept at their width.  TLC's integers are 32-bit,  *)
(* so a 64-bit word is a sequence of 16 hexadecimal digits, least          *)
(* significant first, in two's complement; unbounded naturals are digit    *)
(* sequences of any length.                                                *)
(***************************************************************************)
EXTENDS Integers, Sequences, FiniteSets, TLC

(***************************************************************************)
(* Bounds of the model.                                                    *)
(***************************************************************************)
NumThreads == 2
MaxCalls == 2
MaxTicks == 1

Threads == 1..NumThreads
MainThread == CHOOSE t \in Threads : TRUE

(***************************************************************************)
(* State                                                                   *)
(***************************************************************************)
VARIABLES
    platform,       \* the #ifdef path of this build
    overflow_mode,  \* what this build does on signed overflow
    aborted,        \* the process was stopped by an overflow trap
    ticks,          \* clock advances so far
    nowMs,          \* milliseconds of monotonic time since the model began
    mono_ts,        \* CLOCK_MONOTONIC
    qpf, qpc,       \* QueryPerformanceFrequency, QueryPerformanceCounter
    cpu_ts,         \* CLOCK_PROCESS_CPUTIME_ID
    kernel_time,    \* GetProcessTimes: kernel FILETIME
    user_time,      \* GetProcessTimes: user FILETIME
    pc,             \* per thread: "idle" or "sleeping" (inside the OS wait)
    call,           \* per thread: its current or last call, with what the OS
                    \* answered (api) and how often the call entered its OS
                    \* primitive (os_calls)
    ncalls,         \* calls started, by all threads
    mono_reads,     \* the last two successful monotonic reads, in order
    cpu_reads,      \* the last two successful CPU-time reads, in order
    yields          \* yield calls: made, succeeded, primitive failures

vars == <<platform, overflow_mode, aborted, ticks, nowMs, mono_ts, qpf, qpc,
          cpu_ts, kernel_time, user_time, pc, call, ncalls, mono_reads,
          cpu_reads, yields>>

(***************************************************************************)
(* Naturals of any size: digit sequences, base 16, least significant first *)
(***************************************************************************)
Max(a, b) == IF a >= b THEN a ELSE b

Dig(a, i) == IF i <= Len(a) THEN a[i] ELSE 0

RECURSIVE NatOfInt(_)
NatOfInt(n) == IF n < 16 THEN <<n>> ELSE <<n % 16>> \o NatOfInt(n \div 16)

RECURSIVE Trim(_)
Trim(a) ==
    IF Len(a) > 1 /\ a[Len(a)] = 0 THEN Trim(SubSeq(a, 1, Len(a) - 1)) ELSE a

RECURSIVE AddFrom(_, _, _, _)
AddFrom(a, b, i, c) ==
    IF i > Max(Len(a), Len(b))
    THEN (IF c = 0 THEN <<>> ELSE <<c>>)
    ELSE LET s == Dig(a, i) + Dig(b, i) + c
         IN  <<s % 16>> \o AddFrom(a, b, i + 1, s \div 16)

AddN(a, b) == AddFrom(a, b, 1, 0)

RECURSIVE MulDigitFrom(_, _, _, _)
MulDigitFrom(a, d, i, c) ==
    IF i > Len(a)
    THEN (IF c = 0 THEN <<>> ELSE <<c>>)
    ELSE LET s == a[i] * d + c
         IN  <<s % 16>> \o MulDigitFrom(a, d, i + 1, s \div 16)

RECURSIVE MulFrom(_, _, _)
MulFrom(a, b, j) ==
    IF j > Len(b)
    THEN <<0>>
    ELSE AddN(MulDigitFrom(a, b[j], 1, 0), <<0>> \o MulFrom(a, b, j + 1))

MulN(a, b) == Trim(MulFrom(a, b, 1))

\* a \div f for a divisor 0 < f < 2^27, by long division from the top digit.
RECURSIVE DivFrom(_, _, _, _)
DivFrom(a, f, i, r) ==
    IF i = 0
    THEN <<>>
    ELSE LET x == r * 16 + a[i]
         IN  DivFrom(a, f, i - 1, x % f) \o <<x \div f>>

DivSmallN(a, f) == Trim(DivFrom(a, f, Len(a), 0))

RECURSIVE LessFrom(_, _, _)
LessFrom(a, b, i) ==
    IF i = 0 THEN FALSE
    ELSE IF Dig(a, i) # Dig(b, i) THEN Dig(a, i) < Dig(b, i)
    ELSE LessFrom(a, b, i - 1)

LtN(a, b) == LessFrom(a, b, Max(Len(a), Len(b)))
LeqN(a, b) == ~LtN(b, a)
EqN(a, b) == ~LtN(a, b) /\ ~LtN(b, a)

\* hi * 10^6 + lo, to write down naturals beyond TLC's integers.
NatOfParts(hi, lo) ==
    Trim(AddN(MulN(NatOfInt(hi), NatOfInt(1000000)), NatOfInt(lo)))

(***************************************************************************)
(* 64-bit words (int64_t, LONGLONG, ULONGLONG): 16 digits, two's complement*)
(***************************************************************************)
Word64(a) == [i \in 1..16 |-> Dig(a, i)]

IsNeg64(x) == x[16] >= 8

Neg64(x) == Word64(AddN([i \in 1..16 |-> 15 - x[i]], <<1>>))

MinusOne64 == [i \in 1..16 |-> 15]

\* x <= y as signed 64-bit integers
SLeq64(x, y) ==
    IF IsNeg64(x) # IsNeg64(y) THEN IsNeg64(x) ELSE LeqN(x, y)

\* The natural n fits a non-negative int64_t.
FitsInt64(n) == LET t == Trim(n) IN Len(t) < 16 \/ (Len(t) = 16 /\ t[16] < 8)

\* C's x / f on int64_t (truncation toward zero), f > 0.
SDiv64(x, f) ==
    IF IsNeg64(x)
    THEN Neg64(Word64(DivSmallN(Neg64(x), f)))
    ELSE Word64(DivSmallN(x, f))

\* C's / and % on int (truncation toward zero), b > 0.
CDiv(a, b) == IF a >= 0 THEN a \div b ELSE -((-a) \div b)
CMod(a, b) == a - b * CDiv(a, b)


\* (int) of a two's-complement word: its low 32 bits (8 digits), as an int.
RECURSIVE IntOfDigits(_, _)
IntOfDigits(a, i) == IF i = 0 THEN 0 ELSE a[i] + 16 * IntOfDigits(a, i - 1)

CastInt(w) ==
    IF w[8] >= 8
    THEN -(IntOfDigits([i \in 1..8 |-> 15 - w[i]], 8)) - 1
    ELSE IntOfDigits(w, 8)

\* (DWORD) of an int: 32 bits (8 digits), two's complement.
DwordOfInt(n) ==
    IF n >= 0
    THEN [i \in 1..8 |-> Dig(NatOfInt(n), i)]
    ELSE [i \in 1..8 |-> 15 - Dig(NatOfInt(-n - 1), i)]

(***************************************************************************)
(* Program constants                                                       *)
(***************************************************************************)
NS_PER_SEC == 1000000000
NS_PER_MS == 1000000
MS_PER_SEC == 1000
FILETIME_NS == 100

(***************************************************************************)
(* The build: which #ifdef path is compiled, and what the compiled code    *)
(* does on a signed overflow (undefined in C: the build either wraps in    *)
(* two's complement or traps).                                             *)
(***************************************************************************)
Platforms == {"WIN32", "APPLE", "POSIX"}
OverflowModes == {"wrap", "trap"}

Value(v) == [kind |-> "value", v |-> v]
Trap == [kind |-> "trap"]

\* x * y and x + y on non-negative int64_t operands: the wrapped word, and
\* whether the mathematical result was out of range.
SMul64(x, y) ==
    LET full == MulN(x, y) IN [v |-> Word64(full), overflow |-> ~FitsInt64(full)]

SAdd64(x, y) ==
    LET full == AddN(x, y) IN [v |-> Word64(full), overflow |-> ~FitsInt64(full)]

Signed(mode, overflow, v) == IF overflow /\ mode = "trap" THEN Trap ELSE Value(v)

(***************************************************************************)
(* qi_async_sys_monotonic_time_ns.  api is what the platform clock API     *)
(* gave: on WIN32 [qpf_ok, frequency, qpc_ok, counter], otherwise          *)
(* [rc, ts] of clock_gettime(CLOCK_MONOTONIC).                             *)
(***************************************************************************)
timespec_ns(mode, ts) ==
    LET p == SMul64(Word64(NatOfInt(ts.tv_sec)), NatOfInt(NS_PER_SEC))
        s == SAdd64(p.v, NatOfInt(ts.tv_nsec))
    IN  IF p.overflow
        THEN Signed(mode, TRUE, s.v)
        ELSE Signed(mode, s.overflow, s.v)

\* Variant: not reentrant.  A flag shared by all calls makes every second
\* call of the process fail.
monotonic_time_ns_shared_flag(plat, mode, api) ==
    IF ncalls % 2 = 1 THEN Value(MinusOne64)
    ELSE IF plat = "WIN32"
    THEN IF ~api.qpf_ok THEN Value(MinusOne64)
         ELSE IF ~api.qpc_ok THEN Value(MinusOne64)
         ELSE LET p == SMul64(api.counter, NatOfInt(NS_PER_SEC))
              IN  Signed(mode, p.overflow, SDiv64(p.v, api.frequency))
    ELSE IF api.rc # 0 THEN Value(MinusOne64)
         ELSE timespec_ns(mode, api.ts)

monotonic_time_ns(plat, mode, api) ==
    IF plat = "WIN32"
    THEN IF ~api.qpf_ok THEN Value(MinusOne64)
         ELSE IF ~api.qpc_ok THEN Value(MinusOne64)
         ELSE LET p == SMul64(api.counter, NatOfInt(NS_PER_SEC))
              IN  Signed(mode, p.overflow, SDiv64(p.v, api.frequency))
    ELSE IF api.rc # 0 THEN Value(MinusOne64)
         ELSE timespec_ns(mode, api.ts)

(***************************************************************************)
(* qi_async_sys_cpu_time_ns.  api is [ok, kernel_time, user_time] of       *)
(* GetProcessTimes (FILETIMEs) on WIN32, otherwise [rc, ts] of             *)
(* clock_gettime(CLOCK_PROCESS_CPUTIME_ID).                                *)
(***************************************************************************)
\* ULARGE_INTEGER.QuadPart from LowPart and HighPart
QuadPart(ft) == ft.dwLowDateTime \o ft.dwHighDateTime

\* Variant: the user time is left out of the sum on WIN32, and the seconds
\* are scaled as milliseconds otherwise.
cpu_time_ns_kernel_only(plat, mode, api) ==
    IF plat = "WIN32"
    THEN IF ~api.ok THEN Value(MinusOne64)
         ELSE Value(Word64(MulN(QuadPart(api.kernel_time),
                                NatOfInt(FILETIME_NS))))
    ELSE IF api.rc # 0 THEN Value(MinusOne64)
         ELSE Value(Word64(AddN(MulN(NatOfInt(api.ts.tv_sec),
                                     NatOfInt(NS_PER_MS)),
                                NatOfInt(api.ts.tv_nsec))))

cpu_time_ns(plat, mode, api) ==
    IF plat = "WIN32"
    THEN IF ~api.ok THEN Value(MinusOne64)
         ELSE LET sum == Word64(AddN(QuadPart(api.kernel_time),
                                     QuadPart(api.user_time)))
              IN  Value(Word64(MulN(sum, NatOfInt(FILETIME_NS))))
    ELSE IF api.rc # 0 THEN Value(MinusOne64)
         ELSE timespec_ns(mode, api.ts)

(***************************************************************************)
(* qi_async_sys_yield.  api is the BOOL of SwitchToThread on WIN32,        *)
(* otherwise the int of sched_yield.                                       *)
(***************************************************************************)
\* Variant: SwitchToThread's FALSE (no other thread was ready) is taken for
\* a failure.
yield_checks_switch(plat, api) ==
    IF plat = "WIN32" THEN (IF api THEN 0 ELSE -1)
    ELSE IF api = -1 THEN -1 ELSE 0

yield(plat, api) ==
    IF plat = "WIN32" THEN 0
    ELSE IF api = -1 THEN -1 ELSE 0

(***************************************************************************)
(* qi_async_sys_cpu_count.  api is SYSTEM_INFO.dwNumberOfProcessors (a     *)
(* DWORD) on WIN32, otherwise the long of sysconf(_SC_NPROCESSORS_ONLN).   *)
(***************************************************************************)
cpu_count(plat, api) ==
    IF plat = "WIN32" THEN CastInt(api)
    ELSE IF api = MinusOne64 THEN -1 ELSE CastInt(api)

(***************************************************************************)
(* qi_async_sys_sleep_ms, in two parts around the blocking OS wait:        *)
(* sleep_entry is the code up to the call of Sleep / nanosleep,            *)
(* sleep_return the code after it.                                         *)
(***************************************************************************)
\* Variant: the check of the sign is missing.
sleep_entry_unchecked(plat, ms) ==
    IF plat = "WIN32"
    THEN [wait |-> TRUE, req |-> [dwMilliseconds |-> DwordOfInt(ms)]]
    ELSE [wait |-> TRUE,
          req  |-> [tv_sec  |-> CDiv(ms, MS_PER_SEC),
                    tv_nsec |-> CMod(ms, MS_PER_SEC) * NS_PER_MS]]

sleep_entry(plat, ms) ==
    IF ms < 0
    THEN [wait |-> FALSE, ret |-> -1]
    ELSE IF plat = "WIN32"
    THEN [wait |-> TRUE, req |-> [dwMilliseconds |-> DwordOfInt(ms)]]
    ELSE [wait |-> TRUE,
          req  |-> [tv_sec  |-> CDiv(ms, MS_PER_SEC),
                    tv_nsec |-> CMod(ms, MS_PER_SEC) * NS_PER_MS]]

\* Variant: the result of nanosleep is not looked at.
sleep_return_ignores_rc(plat, rc) == [again |-> FALSE, ret |-> 0]

\* Variant: an interrupted nanosleep is called again.
sleep_return_retries(plat, rc) ==
    IF plat = "WIN32"
    THEN [again |-> FALSE, ret |-> 0]
    ELSE IF rc = -1 THEN [again |-> TRUE, ret |-> 0]
    ELSE [again |-> FALSE, ret |-> 0]

\* rc: what the wait primitive returned (Sleep returns nothing: 0).
\* again: whether the code calls the primitive once more.
sleep_return(plat, rc) ==
    IF plat = "WIN32"
    THEN [again |-> FALSE, ret |-> 0]
    ELSE IF rc = -1 THEN [again |-> FALSE, ret |-> -1]
    ELSE [again |-> FALSE, ret |-> 0]


(***************************************************************************)
(* The operating system's side                                             *)
(***************************************************************************)
\* ts advanced by d milliseconds, normalised
TsAddMs(ts, d) ==
    LET n == ts.tv_nsec + (d % MS_PER_SEC) * NS_PER_MS
    IN  [tv_sec  |-> ts.tv_sec + (d \div MS_PER_SEC) + (n \div NS_PER_SEC),
         tv_nsec |-> n % NS_PER_SEC]

\* A FILETIME from a count of 100 ns units, and advanced by d milliseconds
FileTime(n) ==
    [dwLowDateTime  |-> [i \in 1..8 |-> Dig(n, i)],
     dwHighDateTime |-> [i \in 1..8 |-> Dig(n, i + 8)]]

FtAddMs(ft, d) == FileTime(AddN(QuadPart(ft), NatOfInt(d * 10000)))

\* nanosleep rejects a timespec out of range (EINVAL) without waiting
ValidTimespec(req) ==
    req.tv_sec >= 0 /\ req.tv_nsec >= 0 /\ req.tv_nsec < NS_PER_SEC

\* The wait the primitive was asked for is over after e milliseconds.
\* Sleep(INFINITE) never is.
WaitOver(plat, req, e) ==
    IF plat = "WIN32"
    THEN req.dwMilliseconds # [i \in 1..8 |-> 15]
         /\ LeqN(req.dwMilliseconds, NatOfInt(e))
    ELSE \/ req.tv_sec < e \div MS_PER_SEC
         \/ /\ req.tv_sec = e \div MS_PER_SEC
            /\ req.tv_nsec <= (e % MS_PER_SEC) * NS_PER_MS

\* The OS clocks when a process of the model starts.
\* WIN32: the performance counter's frequency (10 MHz, 24 MHz) and count,
\* and the kernel and user CPU time used so far in 100 ns units.
WinAtBoot ==
    [qpf |-> 10000000, qpc |-> NatOfInt(0),
     kernel |-> NatOfInt(0), user |-> NatOfInt(0)]

WinUptimes ==
    { WinAtBoot,
      \* 922.337 s after boot
      [qpf |-> 10000000, qpc |-> NatOfParts(9223, 370000),
       kernel |-> NatOfParts(10, 0), user |-> NatOfParts(9000, 0)],
      \* 2.5 days after boot, a year of CPU time used on many processors
      [qpf |-> 10000000, qpc |-> NatOfParts(2158269, 56624),
       kernel |-> NatOfParts(31536000, 0), user |-> NatOfParts(315360000, 1)],
      \* 5.1 hours after boot
      [qpf |-> 24000000, qpc |-> NatOfParts(442721, 857769),
       kernel |-> NatOfParts(0, 7), user |-> NatOfParts(184, 467000)] }

\* Otherwise: CLOCK_MONOTONIC and CLOCK_PROCESS_CPUTIME_ID.
PosixAtBoot ==
    [mono |-> [tv_sec |-> 0, tv_nsec |-> 0],
     cpu  |-> [tv_sec |-> 0, tv_nsec |-> 0]]

PosixUptimes ==
    { PosixAtBoot,
      [mono |-> [tv_sec |-> 922337, tv_nsec |-> 999999999],
       cpu  |-> [tv_sec |-> 31536000, tv_nsec |-> 999000001]],
      [mono |-> [tv_sec |-> 2147483, tv_nsec |-> 647000000],
       cpu  |-> [tv_sec |-> 12, tv_nsec |-> 5]] }

\* What the callers pass and what the OS may answer
Durations == {-1, 0, 1, 1500}
TickSteps == {1, 1500}
ClockSteps == {1}
CpuLoads == {"idle", "busy"}
SysconfValues ==
    { MinusOne64, Word64(<<0>>), Word64(<<1>>), Word64(NatOfInt(64)) }
ProcessorCounts == { DwordOfInt(0), DwordOfInt(1), DwordOfInt(64) }

build == <<platform, overflow_mode>>
clocks == <<ticks, nowMs, mono_ts, qpf, qpc, cpu_ts, kernel_time, user_time>>

NoCall == [op |-> "none", done |-> FALSE]

\* The process starts, on some build, with the OS clocks at one of the given
\* uptimes.  Only the clocks of the build's platform are modelled.
Started(modes, wins, posixes) ==
    /\ platform \in Platforms
    /\ overflow_mode \in modes
    /\ aborted = FALSE
    /\ ticks = 0
    /\ nowMs = 0
    /\ IF platform = "WIN32"
       THEN /\ \E w \in wins :
                   /\ qpf = w.qpf
                   /\ qpc = Word64(w.qpc)
                   /\ kernel_time = FileTime(w.kernel)
                   /\ user_time = FileTime(w.user)
            /\ mono_ts = PosixAtBoot.mono
            /\ cpu_ts = PosixAtBoot.cpu
       ELSE /\ \E x \in posixes :
                   /\ mono_ts = x.mono
                   /\ cpu_ts = x.cpu
            /\ qpf = WinAtBoot.qpf
            /\ qpc = Word64(WinAtBoot.qpc)
            /\ kernel_time = FileTime(WinAtBoot.kernel)
            /\ user_time = FileTime(WinAtBoot.user)
    /\ pc = [t \in Threads |-> "idle"]
    /\ call = [t \in Threads |-> NoCall]
    /\ ncalls = 0
    /\ mono_reads = <<>>
    /\ cpu_reads = <<>>
    /\ yields = [calls |-> 0, ok |-> 0, failed |-> 0]

\* A process started right after boot.  Nothing overflows within the time
\* the model covers, so what the build does on overflow cannot be observed.
Init == Started({"wrap"}, {WinAtBoot}, {PosixAtBoot})

\* A process started at any of the uptimes
InitClock == Started(OverflowModes, WinUptimes, PosixUptimes)

LastTwo(s, v) == IF Len(s) = 0 THEN <<v>> ELSE <<s[Len(s)], v>>

CanCall(t) == ~aborted /\ pc[t] = "idle" /\ ncalls < MaxCalls

(***************************************************************************)
(* The clocks advance by d milliseconds; the process was idle meanwhile,   *)
(* or busy for all of it on two processors, one in kernel and one in user  *)
(* mode.                                                                   *)
(***************************************************************************)
Tick(d, c) ==
    /\ ~aborted
    /\ ticks < MaxTicks
    /\ ticks' = ticks + 1
    /\ nowMs' = nowMs + d
    /\ IF platform = "WIN32"
       THEN /\ qpc' = Word64(AddN(qpc, NatOfInt(d * (qpf \div MS_PER_SEC))))
            /\ kernel_time' = IF c = "busy" THEN FtAddMs(kernel_time, d)
                              ELSE kernel_time
            /\ user_time' = IF c = "busy" THEN FtAddMs(user_time, d)
                            ELSE user_time
            /\ UNCHANGED <<mono_ts, cpu_ts>>
       ELSE /\ mono_ts' = TsAddMs(mono_ts, d)
            /\ cpu_ts' = IF c = "busy" THEN TsAddMs(cpu_ts, 2 * d) ELSE cpu_ts
            /\ UNCHANGED <<qpc, kernel_time, user_time>>
    /\ UNCHANGED <<build, aborted, qpf, pc, call, ncalls, mono_reads,
                   cpu_reads, yields>>

(***************************************************************************)
(* qi_async_sys_sleep_ms(ms)                                               *)
(***************************************************************************)
\* The wait primitive of thread t's call c returned rc: the rest of the code.
SleepReturns(t, c, rc) ==
    LET r == sleep_return(platform, rc)
        d == [c EXCEPT !.api = Append(c.api, rc)]
    IN  IF r.again
        THEN /\ call' = [call EXCEPT ![t] =
                            [d EXCEPT !.os_calls = @ + 1, !.wait_start = nowMs]]
             /\ pc' = [pc EXCEPT ![t] = "sleeping"]
        ELSE /\ call' = [call EXCEPT ![t] =
                            [d EXCEPT !.done = TRUE, !.ret = r.ret,
                                      !.elapsed = nowMs - c.start]]
             /\ pc' = [pc EXCEPT ![t] = "idle"]

SleepCall(t, ms) ==
    /\ CanCall(t)
    /\ ncalls' = ncalls + 1
    /\ LET e == sleep_entry(platform, ms)
           c == [op |-> "sleep", arg |-> ms, done |-> FALSE, ret |-> 0,
                 api |-> <<>>, os_calls |-> 0, start |-> nowMs,
                 wait_start |-> nowMs, elapsed |-> 0,
                 req |-> IF e.wait THEN e.req ELSE <<>>]
       IN  IF ~e.wait
           THEN /\ call' = [call EXCEPT ![t] =
                               [c EXCEPT !.done = TRUE, !.ret = e.ret]]
                /\ pc' = pc
           ELSE IF platform # "WIN32" /\ ~ValidTimespec(e.req)
           THEN SleepReturns(t, [c EXCEPT !.os_calls = 1], -1)
           ELSE /\ call' = [call EXCEPT ![t] = [c EXCEPT !.os_calls = 1]]
                /\ pc' = [pc EXCEPT ![t] = "sleeping"]
    /\ UNCHANGED <<build, aborted, clocks, mono_reads, cpu_reads, yields>>

\* The requested time has passed: the primitive returns normally.
SleepWake(t) ==
    /\ ~aborted
    /\ pc[t] = "sleeping"
    /\ WaitOver(platform, call[t].req, nowMs - call[t].wait_start)
    /\ SleepReturns(t, call[t], 0)
    /\ UNCHANGED <<build, aborted, clocks, ncalls, mono_reads, cpu_reads,
                   yields>>

\* A signal handler ran before the requested time had passed: nanosleep
\* returns -1 (EINTR).  Sleep is not alertable and is never cut short.
SleepInterrupt(t) ==
    /\ ~aborted
    /\ pc[t] = "sleeping"
    /\ platform # "WIN32"
    /\ ~WaitOver(platform, call[t].req, nowMs - call[t].wait_start)
    /\ SleepReturns(t, call[t], -1)
    /\ UNCHANGED <<build, aborted, clocks, ncalls, mono_reads, cpu_reads,
                   yields>>

(***************************************************************************)
(* qi_async_sys_monotonic_time_ns()                                        *)
(***************************************************************************)
\* QueryPerformanceFrequency and QueryPerformanceCounter each succeed or
\* fail (the counter is not read once the frequency failed); clock_gettime
\* returns 0 or -1.
MonotonicApis ==
    IF platform = "WIN32"
    THEN { [qpf_ok |-> a[1], qpc_ok |-> a[2], frequency |-> qpf,
            counter |-> qpc] :
             a \in {<<TRUE, TRUE>>, <<TRUE, FALSE>>, <<FALSE, FALSE>>} }
    ELSE { [rc |-> r, ts |-> mono_ts] : r \in {0, -1} }

MonotonicApiOk(api) ==
    IF platform = "WIN32" THEN api.qpf_ok /\ api.qpc_ok ELSE api.rc = 0

MonotonicTime(t, api) ==
    /\ CanCall(t)
    /\ ncalls' = ncalls + 1
    /\ LET r == monotonic_time_ns(platform, overflow_mode, api)
       IN  /\ call' = [call EXCEPT ![t] =
                          [op |-> "monotonic_time_ns", arg |-> <<>>,
                           done |-> r.kind = "value", ret |-> r, api |-> api,
                           os_calls |-> 1, api_ok |-> MonotonicApiOk(api)]]
           /\ aborted' = (r.kind = "trap")
           /\ mono_reads' = IF r.kind = "value" /\ r.v # MinusOne64
                            THEN LastTwo(mono_reads, r.v)
                            ELSE mono_reads
    /\ UNCHANGED <<build, clocks, pc, cpu_reads, yields>>

(***************************************************************************)
(* qi_async_sys_cpu_time_ns()                                              *)
(***************************************************************************)
CpuApis ==
    IF platform = "WIN32"
    THEN { [ok |-> a, kernel_time |-> kernel_time, user_time |-> user_time] :
             a \in BOOLEAN }
    ELSE { [rc |-> r, ts |-> cpu_ts] : r \in {0, -1} }

CpuApiOk(api) == IF platform = "WIN32" THEN api.ok ELSE api.rc = 0

CpuTime(t, api) ==
    /\ CanCall(t)
    /\ ncalls' = ncalls + 1
    /\ LET r == cpu_time_ns(platform, overflow_mode, api)
       IN  /\ call' = [call EXCEPT ![t] =
                          [op |-> "cpu_time_ns", arg |-> <<>>,
                           done |-> r.kind = "value", ret |-> r, api |-> api,
                           os_calls |-> 1, api_ok |-> CpuApiOk(api)]]
           /\ aborted' = (r.kind = "trap")
           /\ cpu_reads' = IF r.kind = "value" /\ r.v # MinusOne64
                           THEN LastTwo(cpu_reads, r.v)
                           ELSE cpu_reads
    /\ UNCHANGED <<build, clocks, pc, mono_reads, yields>>

(***************************************************************************)
(* qi_async_sys_yield()                                                    *)
(***************************************************************************)
\* SwitchToThread: whether another thread ran; sched_yield: 0 or -1
YieldApis == IF platform = "WIN32" THEN {TRUE, FALSE} ELSE {0, -1}

YieldFailed(api) == platform # "WIN32" /\ api = -1

Yield(t, api) ==
    /\ CanCall(t)
    /\ ncalls' = ncalls + 1
    /\ LET r == yield(platform, api)
       IN  /\ call' = [call EXCEPT ![t] =
                          [op |-> "yield", arg |-> <<>>, done |-> TRUE,
                           ret |-> r, api |-> api, os_calls |-> 1,
                           api_failed |-> YieldFailed(api)]]
           /\ yields' = [calls  |-> yields.calls + 1,
                         ok     |-> yields.ok + (IF r = 0 THEN 1 ELSE 0),
                         failed |-> yields.failed
                                      + (IF YieldFailed(api) THEN 1 ELSE 0)]
    /\ UNCHANGED <<build, aborted, clocks, pc, mono_reads, cpu_reads>>

(***************************************************************************)
(* qi_async_sys_cpu_count()                                                *)
(***************************************************************************)
CountApis == IF platform = "WIN32" THEN ProcessorCounts ELSE SysconfValues

\* sysconf answers -1 when it cannot tell; GetSystemInfo cannot fail.
CountFailed(api) == platform # "WIN32" /\ api = MinusOne64

CpuCount(t, api) ==
    /\ CanCall(t)
    /\ ncalls' = ncalls + 1
    /\ call' = [call EXCEPT ![t] =
                   [op |-> "cpu_count", arg |-> <<>>, done |-> TRUE,
                    ret |-> cpu_count(platform, api), api |-> api,
                    os_calls |-> 1, api_failed |-> CountFailed(api)]]
    /\ UNCHANGED <<build, aborted, clocks, pc, mono_reads, cpu_reads, yields>>

Next ==
    \/ \E d \in TickSteps, c \in CpuLoads : Tick(d, c)
    \/ \E t \in Threads, ms \in Durations : SleepCall(t, ms)
    \/ \E t \in Threads : SleepWake(t)
    \/ \E t \in Threads : SleepInterrupt(t)
    \/ \E t \in Threads : \E api \in MonotonicApis : MonotonicTime(t, api)
    \/ \E t \in Threads : \E api \in CpuApis : CpuTime(t, api)
    \/ \E t \in Threads : \E api \in YieldApis : Yield(t, api)
    \/ \E t \in Threads : \E api \in CountApis : CpuCount(t, api)

\* Threads of a process that use the whole layer
Spec == Init /\ [][Next]_vars

\* Threads that only sleep
NextSleep ==
    \/ \E d \in TickSteps : Tick(d, "idle")
    \/ \E t \in Threads, ms \in Durations : SleepCall(t, ms)
    \/ \E t \in Threads : SleepWake(t)
    \/ \E t \in Threads : SleepInterrupt(t)

SpecSleep == Init /\ [][NextSleep]_vars

\* Threads that only yield and size their worker pool
NextSched ==
    \/ \E t \in Threads : \E api \in YieldApis : Yield(t, api)
    \/ \E t \in Threads : \E api \in CountApis : CpuCount(t, api)

SpecSched == Init /\ [][NextSched]_vars

\* One thread that only reads the clocks, in a process started at any uptime
NextClock ==
    \/ \E d \in ClockSteps, c \in CpuLoads : Tick(d, c)
    \/ \E api \in MonotonicApis : MonotonicTime(MainThread, api)
    \/ \E api \in CpuApis : CpuTime(MainThread, api)

SpecClock == InitClock /\ [][NextClock]_vars


(***************************************************************************)
(* Claims                                                                  *)
(***************************************************************************)
Calls(op) == {t \in Threads : call[t].op = op}
Done(op) == {t \in Calls(op) : call[t].done}

\* C1: any two successful reads of qi_async_sys_monotonic_time_ns made in
\* order by one process are non-decreasing as signed 64-bit integers, on
\* every platform path.
C1_MonotonicNonDecreasing ==
    Len(mono_reads) = 2 => SLeq64(mono_reads[1], mono_reads[2])

\* C6: the clock reads return the error outcome (-1) exactly when the
\* platform clock API reported an error.
C6_ErrorExactlyOnApiError ==
    \A t \in Done("monotonic_time_ns") \cup Done("cpu_time_ns") :
        (call[t].ret.v = MinusOne64) <=> ~call[t].api_ok

\* The mathematical value, as a natural, that a successful CPU-time read is
\* to return: (kernel + user) * 100 on WIN32, seconds * 10^9 + nanoseconds
\* otherwise.
ExactCpuNs(api) ==
    IF platform = "WIN32"
    THEN MulN(AddN(QuadPart(api.kernel_time), QuadPart(api.user_time)),
              NatOfInt(100))
    ELSE AddN(MulN(NatOfInt(api.ts.tv_sec), NatOfInt(1000000000)),
              NatOfInt(api.ts.tv_nsec))

\* C10: a successful qi_async_sys_cpu_time_ns returns, as a signed 64-bit
\* integer, kernel plus user time in nanoseconds, and successive successful
\* reads in one process are non-decreasing.
C10_CpuTimeExactAndNonDecreasing ==
    /\ \A t \in Done("cpu_time_ns") :
           call[t].api_ok =>
               /\ ~IsNeg64(call[t].ret.v)
               /\ EqN(call[t].ret.v, ExactCpuNs(call[t].api))
    /\ Len(cpu_reads) = 2 => SLeq64(cpu_reads[1], cpu_reads[2])

\* Two successful CPU-time reads with the process busy in between
C10_Witness ==
    /\ Len(cpu_reads) = 2
    /\ cpu_reads[1] # cpu_reads[2]
    /\ \E t \in Done("cpu_time_ns") :
           call[t].api_ok /\ call[t].ret.v = cpu_reads[2]

\* The wait asked of the OS is exactly ms milliseconds.
RequestsExactly(req, ms) ==
    IF platform = "WIN32"
    THEN EqN(req.dwMilliseconds, NatOfInt(ms))
    ELSE /\ req.tv_sec = ms \div 1000
         /\ req.tv_nsec = (ms % 1000) * 1000000
         /\ req.tv_nsec \in 0..999999999

C3_NegativeFailsWithoutWaiting ==
    \A t \in Calls("sleep") :
        call[t].arg < 0 =>
            /\ call[t].done /\ call[t].ret = -1
            /\ call[t].os_calls = 0 /\ call[t].api = <<>>
            /\ call[t].elapsed = 0
            /\ pc[t] = "idle"

C3_Witness == \E t \in Done("sleep") : call[t].arg = -1 /\ call[t].ret = -1

\* C4: a sleep whose OS wait is interrupted returns the failure to the
\* caller and does not wait again; no call of the layer invokes its OS
\* primitive more than once.
C4_InterruptedFailsWithoutRetry ==
    \A t \in Threads :
        call[t].op # "none" =>
            /\ call[t].os_calls <= 1
            /\ (call[t].op = "sleep" /\ call[t].api # <<>>
                    /\ call[t].api[1] = -1) =>
                   /\ call[t].done /\ call[t].ret = -1
                   /\ pc[t] = "idle"
                   /\ Len(call[t].api) = 1

\* A sleep cut short by the OS after 1 ms of 1500
C4_Witness ==
    \E t \in Done("sleep") :
        call[t].arg = 1500 /\ call[t].api = <<-1>> /\ call[t].elapsed = 1

\* C5: the value returned by sleep tells a negative-duration failure from a
\* wait cut short by the OS, and both from success.
C5_FailureKindsDistinct ==
    \A t, u \in Done("sleep") :
        (call[t].arg < 0 /\ call[u].arg >= 0) =>
            /\ call[u].api = <<-1>> => call[t].ret # call[u].ret
            /\ call[u].api = <<0>> => call[t].ret # call[u].ret

\* C7: every result of qi_async_sys_cpu_count other than the error outcome
\* is >= 1 and is the count the OS reported, whatever the OS query returns;
\* a query that failed is returned as the error outcome.
C7_CountAtLeastOne ==
    \A t \in Done("cpu_count") :
        IF call[t].api_failed
        THEN call[t].ret = -1
        ELSE call[t].ret # -1 =>
                 /\ call[t].ret >= 1
                 /\ EqN(call[t].api, NatOfInt(call[t].ret))

\* C9: every qi_async_sys_yield returns after one invocation of the OS
\* yield primitive, with the error outcome exactly when the primitive
\* reported failure; so N calls under a primitive that does not fail are N
\* successes.
C9_YieldOnceAndFailsOnlyOnFailure ==
    /\ \A t \in Calls("yield") :
           /\ call[t].done /\ pc[t] = "idle"
           /\ call[t].os_calls = 1
           /\ call[t].ret = (IF call[t].api_failed THEN -1 ELSE 0)
    /\ yields.ok = yields.calls - yields.failed

\* Two yields in a row, on WIN32 with no other thread ready to run
C9_Witness ==
    /\ yields.calls >= 2 /\ yields.ok = yields.calls
    /\ \E t \in Done("yield") : platform = "WIN32" /\ call[t].api = FALSE

=============================================================================
